---- MODULE Spec2Model ----
(***************************************************************************)
(* A model of golog (github.com/tommynurwantoro/golog): the sensitive-data *)
(* masker, the header redaction, the context field extractor, the record   *)
(* builders and the process-wide singleton accessor.                       *)
(*                                                                         *)
(* Go values of static type interface{} are tagged pairs <<kind, payload>> *)
(* so that a type switch or a type assertion of the code is a test of the  *)
(* kind.  Where aliasing matters (the last part) mappings and sequences    *)
(* are references into a heap.                                             *)
(***************************************************************************)
EXTENDS Integers, Sequences, FiniteSets, TLC

VARIABLES
    phase,      \* "build": the caller prepares the inputs; "done": the call returned
    call,       \* the operation the caller ran ("none" before it)
    body,       \* the payload handed to maskField / LogModel.Request
    masked,     \* what maskField returned
    logModel,   \* the LogModel handed to TDR
    tdrLog,     \* the records handed to the transaction-detail sink (loggerTDR)
    header,     \* the caller's header collection
    headerArg,  \* the header collection as it was when removeAuth was called
    redacted,   \* what removeAuth returned
    ctx,        \* the request context: ctx.Value(k) for every key k
    ctxFields,  \* what populateFieldFromContext returned
    onceDone,   \* sync.Once: the done flag of the package variable once
    onceM,      \* sync.Once: the holder of once's mutex (NoProc: unlocked)
    singleton,  \* the package variable singleton (Nil or a *Log)
    muW,        \* sync.RWMutex mu: the holder of the write lock (NoProc: none)
    muR,        \* sync.RWMutex mu: the holders of a read lock
    pc,         \* where each goroutine is in Load, Reset or a package-level call
    arg,        \* the Config handed to each goroutine's Load
    ret,        \* what each goroutine's last Load returned
    nextId,     \* the identity of the next *Log that NewLogger allocates
    resets,     \* the number of completed Reset calls
    sysLog,     \* the records handed to the system sink, with the emitting *Log
    builtNow,   \* history: the *Logs constructed since the last completed Reset
    returnedNow, \* history: what Load returned since the last completed Reset
    sysOut,     \* a handle's system sink: the records handed to l.logger
    tdrOut,     \* a handle's transaction sink: the records handed to l.loggerTDR
    lastCall,   \* the last call on the handle, with its arguments
    calls,      \* history: the number of calls made on the handle
    syncs,      \* history: the number of Sync calls among them
    flushed,    \* the sinks the last Sync flushed, in order, each with its result
    syncRet,    \* what the last Sync returned
    outcome,    \* how the last call ended: "returned", "panicked" or "exited"
    op,         \* the package-level call each goroutine is in
    result,     \* how each goroutine's last package-level call ended
    pkgTdrLog,  \* the records handed to the transaction sink, with the emitting *Log
    pkgCalls,   \* history: the number of package-level calls started
    heap,       \* the mappings and sequences allocated so far, by address
    payload,    \* the values the caller handed to the last call to be masked
    maskedRef,  \* what maskField returned for each of them
    maskCalls   \* history: the number of maskField / TDR calls made

callVars == <<phase, call>>
maskVars == <<body, masked, logModel, tdrLog>>
hdrVars == <<header, headerArg, redacted>>
ctxVars == <<ctx, ctxFields>>

loadVars == <<onceDone, onceM, singleton, muW, muR, pc, arg, ret, nextId, resets,
              sysLog, builtNow, returnedNow>>

\* a handle (*Log) and its two sinks
logVars == <<sysOut, tdrOut, lastCall, calls, syncs, flushed, syncRet, outcome>>

\* the package-level calls
pkgVars == <<op, result, pkgTdrLog, pkgCalls>>

\* the payload as Go holds it: references to mappings and sequences
heapVars == <<heap, payload, maskedRef, maskCalls>>

vars == <<callVars, maskVars, hdrVars, ctxVars, loadVars, logVars, pkgVars, heapVars>>

\* what the callers of one part leave alone
notMask == <<hdrVars, ctxVars, loadVars, logVars, pkgVars, heapVars>>
notHdr == <<maskVars, ctxVars, loadVars, logVars, pkgVars, heapVars>>
notCtx == <<maskVars, hdrVars, loadVars, logVars, pkgVars, heapVars>>
notLoad == <<callVars, maskVars, hdrVars, ctxVars, logVars, pkgVars, heapVars>>
notLog == <<callVars, maskVars, hdrVars, ctxVars, loadVars, pkgVars, heapVars>>
notPkg == <<callVars, maskVars, hdrVars, ctxVars, logVars, heapVars>>
notHeap == <<callVars, maskVars, hdrVars, ctxVars, loadVars, logVars, pkgVars>>

----------------------------------------------------------------------------
(* Go values *)

Nil == <<"nil", "nil">>                 \* the nil interface value
Str(s) == <<"string", s>>
Num(n) == <<"float64", n>>
Bytes(s) == <<"bytes", s>>              \* []byte holding the text s
Map(f) == <<"map", f>>                  \* map[string]interface{}
NilMap == <<"nilmap", "nil">>           \* map[string]interface{}(nil)
Slice(s) == <<"slice", s>>              \* []interface{}

Kind(v) == v[1]
Val(v) == v[2]

\* v.(map[string]interface{}) succeeds for a nil map too
IsMap(v) == Kind(v) \in {"map", "nilmap"}
IsSlice(v) == Kind(v) = "slice"

----------------------------------------------------------------------------
(* The masking policy *)

SENSITIVE_HEADER == <<"Authorization", "Signature", "Apikey">>

SENSITIVE_ATTR ==
    {"password", "license", "license_code", "token", "access_token", "refresh_token"}

\* strings.ToLower on the keys that occur in the model
ToLower(s) ==
    CASE s = "Token" -> "token"
      [] s = "PASSWORD" -> "password"
      [] s = "Name" -> "name"
      [] OTHER -> s

isSensitiveField_exact(key) == key \in SENSITIVE_ATTR

isSensitiveField(key) == ToLower(key) \in SENSITIVE_ATTR

\* strings.Repeat("*", 5)
MaskText == "*****"

----------------------------------------------------------------------------
(* JSON texts and json.Unmarshal into a map[string]interface{} *)

TxtEmpty == ""
TxtFlat == "{\"username\":\"john\",\"password\":\"secret\"}"
TxtNested == "{\"user\":{\"Token\":\"abc\"},\"items\":[{\"access_token\":\"xyz\"},1]}"
TxtNull == "null"
TxtArray == "[{\"password\":\"secret\"}]"
TxtTruncated == "{\"password\":\"secr"
TxtPlain == "not json"

Texts == {TxtEmpty, TxtFlat, TxtNested, TxtNull, TxtArray, TxtTruncated, TxtPlain}

DocFlat == Map([k \in {"username", "password"} |->
                  IF k = "username" THEN Str("john") ELSE Str("secret")])

DocNested ==
    Map([k \in {"user", "items"} |->
           IF k = "user"
           THEN Map([j \in {"Token"} |-> Str("abc")])
           ELSE Slice(<<Map([j \in {"access_token"} |-> Str("xyz")]), Num(1)>>)])

\* json.Unmarshal(text, &m) with m a nil map[string]interface{}: <<err, m>>.
\* Object text decodes to a map (numbers float64, objects maps, arrays
\* []interface{}); the literal null is accepted and leaves the map nil; every
\* other text is an error.
Unmarshal(text) ==
    CASE text = TxtFlat -> <<FALSE, DocFlat>>
      [] text = TxtNested -> <<FALSE, DocNested>>
      [] text = TxtNull -> <<FALSE, NilMap>>
      [] OTHER -> <<TRUE, NilMap>>

UnmarshalErr(text) == Unmarshal(text)[1]
UnmarshalMap(text) == Unmarshal(text)[2]

----------------------------------------------------------------------------
(* The masker *)

RECURSIVE maskFieldMap(_)

\* the array branch with the fresh array filled by append after make(len)
maskedArray_append(v) ==
    Slice([i \in 1..Len(Val(v)) |-> Nil]
          \o [i \in 1..Len(Val(v)) |->
                IF IsMap(Val(v)[i]) THEN maskFieldMap(Val(v)[i]) ELSE Val(v)[i]])

\* the array branch that keeps only the masked mappings
maskedArray_mapsonly(v) ==
    Slice(SelectSeq([i \in 1..Len(Val(v)) |->
                       IF IsMap(Val(v)[i]) THEN maskFieldMap(Val(v)[i]) ELSE Nil],
                    LAMBDA item : item # Nil))

maskedArray(v) ==
    Slice([i \in 1..Len(Val(v)) |->
             IF IsMap(Val(v)[i]) THEN maskFieldMap(Val(v)[i]) ELSE Val(v)[i]])

\* maskFieldMap that compares the key before it looks at the value's shape
maskFieldMap_keyfirst(bodyMap) ==
    IF bodyMap = NilMap
    THEN NilMap
    ELSE Map([key \in DOMAIN Val(bodyMap) |->
                LET value == Val(bodyMap)[key] IN
                CASE isSensitiveField(key) -> Str(MaskText)
                  [] IsMap(value) -> maskFieldMap(value)
                  [] IsSlice(value) -> maskedArray(value)
                  [] OTHER -> value])

maskFieldMap(bodyMap) ==
    IF bodyMap = NilMap
    THEN NilMap
    ELSE Map([key \in DOMAIN Val(bodyMap) |->
                LET value == Val(bodyMap)[key] IN
                CASE IsMap(value) -> maskFieldMap(value)
                  [] IsSlice(value) -> maskedArray(value)
                  [] OTHER -> IF isSensitiveField(key)
                              THEN Str(MaskText)
                              ELSE value])

\* maskField that hands unparseable bytes back as bytes
maskField_keepbytes(b) ==
    CASE b = Nil -> Nil
      [] Kind(b) = "bytes" ->
            IF Val(b) = ""
            THEN b
            ELSE IF UnmarshalErr(Val(b)) THEN b ELSE maskFieldMap(UnmarshalMap(Val(b)))
      [] IsMap(b) -> maskFieldMap(b)
      [] OTHER -> b

maskField(b) ==
    CASE b = Nil -> Nil
      [] Kind(b) = "bytes" ->
            IF Val(b) = ""
            THEN b
            ELSE IF UnmarshalErr(Val(b))
                 THEN Str(Val(b))
                 ELSE maskFieldMap(UnmarshalMap(Val(b)))
      [] IsMap(b) -> maskFieldMap(b)
      [] OTHER -> b

toJSON(object) ==
    CASE object = Nil -> Nil
      [] Kind(object) = "string" ->
            IF Val(object) = ""
            THEN object
            ELSE IF UnmarshalErr(Val(object))
                 THEN object
                 ELSE UnmarshalMap(Val(object))
      [] OTHER -> object

----------------------------------------------------------------------------
(* The request context and the context field extractor *)

\* the typed keys (type contextKey) and the legacy keys (type string)
TraceIDKey == <<"contextKey", "traceId">>
SrcIPKey == <<"contextKey", "srcIP">>
PortKey == <<"contextKey", "port">>
PathKey == <<"contextKey", "path">>

LegacyKey(name) == <<"string", name>>

CtxKeys == {TraceIDKey, SrcIPKey, PortKey, PathKey,
            LegacyKey("traceId"), LegacyKey("srcIP"), LegacyKey("port"), LegacyKey("path")}

\* context.Background(): ctx.Value(k) is nil for every key
Background == [k \in CtxKeys |-> Nil]

\* context.WithValue(ctx, key, val): the new entry shadows an older one of the key
WithValue(c, key, val) == [c EXCEPT ![key] = val]

WithTraceID(c, traceID) == WithValue(c, TraceIDKey, Str(traceID))
WithSrcIP(c, srcIP) == WithValue(c, SrcIPKey, Str(srcIP))
WithPort(c, port) == WithValue(c, PortKey, Str(port))
WithPath(c, path) == WithValue(c, PathKey, Str(path))

\* zap.String / zap.Any / zap.Uint64 / zap.Int64: a field is <<key, value>>
Field(key, value) == <<key, value>>

\* v, ok := ctx.Value(key).(string); ok && v != ""
NonEmptyString(v) == Kind(v) = "string" /\ Val(v) # ""

\* one slot with the legacy key looked up first
slotField_legacyfirst(c, typedKey, name) ==
    IF NonEmptyString(c[LegacyKey(name)])
    THEN <<Field(name, c[LegacyKey(name)])>>
    ELSE IF NonEmptyString(c[typedKey])
         THEN <<Field(name, c[typedKey])>>
         ELSE <<>>

\* one slot without the test for the empty string
slotField_noempty(c, typedKey, name) ==
    IF Kind(c[typedKey]) = "string"
    THEN <<Field(name, c[typedKey])>>
    ELSE IF Kind(c[LegacyKey(name)]) = "string"
         THEN <<Field(name, c[LegacyKey(name)])>>
         ELSE <<>>

\* one slot of populateFieldFromContext: the typed key, else the legacy key
slotField(c, typedKey, name) ==
    IF NonEmptyString(c[typedKey])
    THEN <<Field(name, c[typedKey])>>
    ELSE IF NonEmptyString(c[LegacyKey(name)])
         THEN <<Field(name, c[LegacyKey(name)])>>
         ELSE <<>>

populateFieldFromContext(c) ==
    slotField(c, TraceIDKey, "traceId")
    \o slotField(c, SrcIPKey, "srcIP")
    \o slotField(c, PortKey, "port")
    \o slotField(c, PathKey, "path")

----------------------------------------------------------------------------
(* Header redaction *)

\* net/http: a Header is a map from the key to its values
HttpHeader(f) == <<"http.Header", f>>

\* fasthttp: a RequestHeader (held by value) keeps its header lines in order
FastHeader(h) == <<"fasthttp.RequestHeader", h>>

\* textproto.CanonicalMIMEHeaderKey and fasthttp's key normalisation, on the
\* header names that occur in the model
CanonicalMIMEHeaderKey(s) ==
    CASE s = "authorization" -> "Authorization"
      [] s = "apikey" -> "Apikey"
      [] s = "SIGNATURE" -> "Signature"
      [] s = "content-type" -> "Content-Type"
      [] OTHER -> s

\* http.Header.Del(key): delete(h, CanonicalMIMEHeaderKey(key))
HttpDel(f, key) == [k \in DOMAIN f \ {CanonicalMIMEHeaderKey(key)} |-> f[k]]

\* fasthttp RequestHeader.Del(key): drops every line of the normalised key
FastDel(h, key) == SelectSeq(h, LAMBDA kv : kv[1] # CanonicalMIMEHeaderKey(key))

\* fasthttp RequestHeader.Header(): the wire form, request line first
RequestLine == "GET / HTTP/1.1"
HeaderWire(h) == <<RequestLine, h>>

\* the loop over the sensitive names that stops before the last one
RECURSIVE delSensitive_skiplast(_, _, _)
delSensitive_skiplast(kind, h, i) ==
    IF i >= Len(SENSITIVE_HEADER)
    THEN h
    ELSE delSensitive_skiplast(kind,
                               IF kind = "http.Header"
                               THEN HttpDel(h, SENSITIVE_HEADER[i])
                               ELSE FastDel(h, SENSITIVE_HEADER[i]),
                               i + 1)

\* for _, val := range SENSITIVE_HEADER { mapHeader.Del(val) }, from index i on
RECURSIVE delSensitive(_, _, _)
delSensitive(kind, h, i) ==
    IF i > Len(SENSITIVE_HEADER)
    THEN h
    ELSE delSensitive(kind,
                      IF kind = "http.Header"
                      THEN HttpDel(h, SENSITIVE_HEADER[i])
                      ELSE FastDel(h, SENSITIVE_HEADER[i]),
                      i + 1)

removeAuth(hdr) ==
    CASE Kind(hdr) = "fasthttp.RequestHeader" ->
            Str(HeaderWire(delSensitive(Kind(hdr), Val(hdr), 1)))
      [] Kind(hdr) = "http.Header" ->
            HttpHeader(delSensitive(Kind(hdr), Val(hdr), 1))
      [] OTHER -> hdr

----------------------------------------------------------------------------
(* The record builders *)

\* LogModel{CorrelationID, Header, Request, StatusCode, Method, HttpStatus,
\*          Response, ResponseTime, Error, OtherData}
LogModel(cid, hdr, req, sc, meth, hs, resp, rt, err, other) ==
    [CorrelationID |-> cid, Header |-> hdr, Request |-> req, StatusCode |-> sc,
     Method |-> meth, HttpStatus |-> hs, Response |-> resp, ResponseTime |-> rt,
     Error |-> err, OtherData |-> other]

Record(level, msg, fields) == [level |-> level, msg |-> msg, fields |-> fields]

\* time.Duration.Milliseconds(): nanoseconds to whole milliseconds
Milliseconds(d) == d \div 1000000

\* Log.TDR leaving out the fields whose value is nil
TDRFields_omitnil(c, log) ==
    SelectSeq(populateFieldFromContext(c)
              \o << Field("correlationId", Str(log.CorrelationID)),
                    Field("header", removeAuth(log.Header)),
                    Field("request", toJSON(maskField(log.Request))),
                    Field("statusCode", Str(log.StatusCode)),
                    Field("method", Str(log.Method)),
                    Field("httpStatus", <<"uint64", log.HttpStatus>>),
                    Field("response", toJSON(maskField(log.Response))),
                    Field("rt", <<"int64", Milliseconds(log.ResponseTime)>>),
                    Field("error", toJSON(log.Error)),
                    Field("otherData", toJSON(log.OtherData)) >>,
              LAMBDA f : f[2] # Nil)

\* the fields Log.TDR appends, in order
TDRFields(c, log) ==
    populateFieldFromContext(c)
    \o << Field("correlationId", Str(log.CorrelationID)),
          Field("header", removeAuth(log.Header)),
          Field("request", toJSON(maskField(log.Request))),
          Field("statusCode", Str(log.StatusCode)),
          Field("method", Str(log.Method)),
          Field("httpStatus", <<"uint64", log.HttpStatus>>),
          Field("response", toJSON(maskField(log.Response))),
          Field("rt", <<"int64", Milliseconds(log.ResponseTime)>>),
          Field("error", toJSON(log.Error)),
          Field("otherData", toJSON(log.OtherData)) >>

\* l.loggerTDR.Info(":", fields...)
TDR(c, log) == Record("info", ":", TDRFields(c, log))

\* an error value whose Error() is the text msg
Err(msg) == <<"error", msg>>

\* fields = append(fields, ctxField...)
StdFields(c, fields) == fields \o populateFieldFromContext(c)

\* fields = append(fields, ctxField...) with the context fields put first
ErrFields_ctxfirst(c, err, fields) ==
    populateFieldFromContext(c) \o fields \o << Field("error", toJSON(err)) >>

\* ... then fields = append(fields, zap.Any("error", toJSON(err)))
ErrFields(c, err, fields) == StdFields(c, fields) \o << Field("error", toJSON(err)) >>

\* the record each method of *Log hands to l.logger
Debug(c, msg, fields) == Record("debug", msg, StdFields(c, fields))
Info(c, msg, fields) == Record("info", msg, StdFields(c, fields))
Warn(c, msg, fields) == Record("warn", msg, StdFields(c, fields))
Error(c, msg, err, fields) == Record("error", msg, ErrFields(c, err, fields))
Fatal(c, msg, err, fields) == Record("fatal", msg, ErrFields(c, err, fields))
Panic(c, msg, err, fields) == Record("panic", msg, ErrFields(c, err, fields))

\* Sync that gives up after the system sink failed
SyncFlushes_shortcircuit(err1, err2) ==
    IF err1 # Nil
    THEN << <<"logger", err1>> >>
    ELSE << <<"logger", err1>>, <<"loggerTDR", err2>> >>

\* Log.Sync: err1 := l.logger.Sync(); err2 := l.loggerTDR.Sync()
SyncFlushes(err1, err2) == << <<"logger", err1>>, <<"loggerTDR", err2>> >>

\* Log.Sync: if err1 != nil { return err1 }; return err2
Sync(err1, err2) == IF err1 # Nil THEN err1 ELSE err2

\* the value of the first field of the key in a record
RECURSIVE FieldAt(_, _, _)
FieldAt(fields, key, i) ==
    IF i > Len(fields)
    THEN Nil
    ELSE IF fields[i][1] = key THEN fields[i][2] ELSE FieldAt(fields, key, i + 1)

FieldOf(rec, key) == FieldAt(rec.fields, key, 1)

----------------------------------------------------------------------------
(* The masker's callers: a payload is built, then maskField or TDR is called *)

MaxNodes == 5

BuilderKeys == {"password", "Token", "name"}

Leaves == {Str("secret"), Num(1), Map(<<>>), Slice(<<>>)}

TextPayloads == {Str(t) : t \in Texts} \cup {Bytes(t) : t \in Texts}

RECURSIVE Size(_)
RECURSIVE SizeOfEntries(_, _)
RECURSIVE SizeOfItems(_, _)

\* the number of values in a payload
Size(v) ==
    CASE Kind(v) = "map" -> 1 + SizeOfEntries(Val(v), DOMAIN Val(v))
      [] Kind(v) = "slice" -> 1 + SizeOfItems(Val(v), 1)
      [] OTHER -> 1

SizeOfEntries(f, keys) ==
    IF keys = {}
    THEN 0
    ELSE LET k == CHOOSE x \in keys : TRUE
         IN Size(f[k]) + SizeOfEntries(f, keys \ {k})

SizeOfItems(s, i) == IF i > Len(s) THEN 0 ELSE Size(s[i]) + SizeOfItems(s, i + 1)

\* the context of the calls of this part: a request with a trace id
TraceCtx == WithTraceID(Background, "trace-123")

\* LogModel{}
ZeroLogModel == LogModel("", Nil, Nil, "", "", 0, Nil, 0, Nil, Nil)

\* a call on a handle: the method and its arguments
CallRec(o, c, msg, err, fields, log) ==
    [op |-> o, c |-> c, msg |-> msg, err |-> err, fields |-> fields, log |-> log]

\* a goroutine that is in no package-level call
NoResult == <<"none", Nil>>

NoCall == CallRec("none", Background, "", Nil, <<>>, ZeroLogModel)

\* the goroutines of the model and the configurations they load
Procs == {"g1", "g2"}
NoProc == "none"
Configs == {"cfgA", "cfgB"}
NoConfig == "none"

\* the state of the package variables at process start
LoadIdle ==
    /\ onceDone = FALSE
    /\ onceM = NoProc
    /\ singleton = Nil
    /\ muW = NoProc
    /\ muR = {}
    /\ pc = [p \in Procs |-> "idle"]
    /\ arg = [p \in Procs |-> NoConfig]
    /\ ret = [p \in Procs |-> Nil]
    /\ nextId = 1
    /\ resets = 0
    /\ sysLog = <<>>
    /\ builtNow = {}
    /\ returnedNow = {}

\* a handle nothing was called on
LogIdle ==
    /\ sysOut = <<>>
    /\ tdrOut = <<>>
    /\ lastCall = NoCall
    /\ calls = 0
    /\ syncs = 0
    /\ flushed = <<>>
    /\ syncRet = Nil
    /\ outcome = "none"

\* no package-level call was made
PkgIdle ==
    /\ op = [p \in Procs |-> "none"]
    /\ result = [p \in Procs |-> NoResult]
    /\ pkgTdrLog = <<>>
    /\ pkgCalls = 0

\* nothing was allocated and no masking call was made
HeapIdle == heap = <<>> /\ payload = <<>> /\ maskedRef = <<>> /\ maskCalls = 0

HdrIdle == header = Nil /\ headerArg = Nil /\ redacted = Nil
CtxIdle == ctx = Background /\ ctxFields = <<>>
MaskIdle == body = Nil /\ masked = Nil /\ logModel = ZeroLogModel /\ tdrLog = <<>>

MaskInit ==
    /\ phase = "build"
    /\ call = "none"
    /\ body \in Leaves \cup TextPayloads \cup {Nil}
    /\ masked = Nil
    /\ logModel = ZeroLogModel
    /\ tdrLog = <<>>
    /\ HdrIdle
    /\ CtxIdle
    /\ LoadIdle
    /\ LogIdle
    /\ PkgIdle
    /\ HeapIdle

\* body[k] = leaf
PutEntry(k, leaf) ==
    /\ phase = "build"
    /\ Kind(body) = "map"
    /\ k \notin DOMAIN Val(body)
    /\ Size(body) + Size(leaf) <= MaxNodes
    /\ body' = Map([j \in DOMAIN Val(body) \cup {k} |->
                      IF j = k THEN leaf ELSE Val(body)[j]])
    /\ UNCHANGED <<phase, call, masked, logModel, tdrLog, notMask>>

\* body = append(body, leaf)
AppendItem(leaf) ==
    /\ phase = "build"
    /\ Kind(body) = "slice"
    /\ Size(body) + Size(leaf) <= MaxNodes
    /\ body' = Slice(Append(Val(body), leaf))
    /\ UNCHANGED <<phase, call, masked, logModel, tdrLog, notMask>>

\* body = map[string]interface{}{k: body}
NestInMap(k) ==
    /\ phase = "build"
    /\ body \in Leaves \/ Kind(body) \in {"map", "slice"}
    /\ Size(body) + 1 <= MaxNodes
    /\ body' = Map([j \in {k} |-> body])
    /\ UNCHANGED <<phase, call, masked, logModel, tdrLog, notMask>>

\* body = []interface{}{body}
NestInSlice ==
    /\ phase = "build"
    /\ body \in Leaves \/ Kind(body) \in {"map", "slice"}
    /\ Size(body) + 1 <= MaxNodes
    /\ body' = Slice(<<body>>)
    /\ UNCHANGED <<phase, call, masked, logModel, tdrLog, notMask>>

\* masked := maskField(body)
CallMaskField ==
    /\ phase = "build"
    /\ masked' = maskField(body)
    /\ phase' = "done"
    /\ call' = "maskField"
    /\ UNCHANGED <<body, logModel, tdrLog, notMask>>

ResponsePayloads == {Nil, Str(TxtFlat), Bytes(TxtNested), Bytes(TxtPlain)}

\* Log.TDR(ctx, LogModel{Request: body, Response: resp, ...})
CallTDR(resp) ==
    /\ phase = "build"
    /\ logModel' = LogModel("corr-456", Nil, body, "200", "POST", 200,
                            resp, 100000000, Nil, Nil)
    /\ tdrLog' = Append(tdrLog, TDR(TraceCtx, logModel'))
    /\ phase' = "done"
    /\ call' = "TDR"
    /\ UNCHANGED <<body, masked, notMask>>

MaskNext ==
    \/ \E k \in BuilderKeys, leaf \in Leaves : PutEntry(k, leaf)
    \/ \E leaf \in Leaves : AppendItem(leaf)
    \/ \E k \in BuilderKeys : NestInMap(k)
    \/ NestInSlice
    \/ CallMaskField
    \/ \E resp \in ResponsePayloads : CallTDR(resp)

SpecMask == MaskInit /\ [][MaskNext]_vars

----------------------------------------------------------------------------
(* The callers of a handle: log calls, transaction records and Sync *)

MaxCalls == 3

\* a request context with a typed trace id and a legacy path
CtxBoth == WithValue(WithTraceID(Background, "trace-123"), LegacyKey("path"), Str("/api"))

LogCtxs == {Background, CtxBoth}

Messages == {"Test message"}

\* zap.String("filename", "test.txt") and a field of a key the context also has
CallerFields ==
    { <<>>, << Field("traceId", Str("caller")), Field("filename", Str("test.txt")) >> }

\* os.ErrNotExist, an error whose text is a JSON object, and no error
Errors == {Nil, Err("file does not exist"), Err(TxtFlat)}

\* what Sync of a sink returns
ErrSys == Err("sync system.log")
ErrTdr == Err("sync tdr.log")

\* a LogModel with every field set
FullLogModel ==
    LogModel("corr-456",
             HttpHeader([k \in {"Authorization", "Content-Type"} |-> <<"a">>]),
             DocFlat, "200", "POST", 200, Bytes(TxtNested), 1500000,
             Str("not json"), Str(TxtFlat))

LogModels == {ZeroLogModel, FullLogModel}

LogInit ==
    /\ LogIdle
    /\ phase = "build"
    /\ call = "none"
    /\ MaskIdle
    /\ HdrIdle
    /\ CtxIdle
    /\ LoadIdle
    /\ PkgIdle
    /\ HeapIdle

\* l.Debug(ctx, msg, fields...)
CallDebug(c, msg, fields) ==
    /\ outcome # "exited"
    /\ calls < MaxCalls
    /\ sysOut' = Append(sysOut, Debug(c, msg, fields))
    /\ lastCall' = CallRec("Debug", c, msg, Nil, fields, ZeroLogModel)
    /\ calls' = calls + 1
    /\ outcome' = "returned"
    /\ UNCHANGED <<tdrOut, syncs, flushed, syncRet, notLog>>

\* l.Info(ctx, msg, fields...)
CallInfo(c, msg, fields) ==
    /\ outcome # "exited"
    /\ calls < MaxCalls
    /\ sysOut' = Append(sysOut, Info(c, msg, fields))
    /\ lastCall' = CallRec("Info", c, msg, Nil, fields, ZeroLogModel)
    /\ calls' = calls + 1
    /\ outcome' = "returned"
    /\ UNCHANGED <<tdrOut, syncs, flushed, syncRet, notLog>>

\* l.Warn(ctx, msg, fields...)
CallWarn(c, msg, fields) ==
    /\ outcome # "exited"
    /\ calls < MaxCalls
    /\ sysOut' = Append(sysOut, Warn(c, msg, fields))
    /\ lastCall' = CallRec("Warn", c, msg, Nil, fields, ZeroLogModel)
    /\ calls' = calls + 1
    /\ outcome' = "returned"
    /\ UNCHANGED <<tdrOut, syncs, flushed, syncRet, notLog>>

\* l.Error(ctx, msg, err, fields...)
CallError(c, msg, err, fields) ==
    /\ outcome # "exited"
    /\ calls < MaxCalls
    /\ sysOut' = Append(sysOut, Error(c, msg, err, fields))
    /\ lastCall' = CallRec("Error", c, msg, err, fields, ZeroLogModel)
    /\ calls' = calls + 1
    /\ outcome' = "returned"
    /\ UNCHANGED <<tdrOut, syncs, flushed, syncRet, notLog>>

\* l.Fatal(ctx, msg, err, fields...): zap writes the entry, then os.Exit(1)
CallFatal(c, msg, err, fields) ==
    /\ outcome # "exited"
    /\ calls < MaxCalls
    /\ sysOut' = Append(sysOut, Fatal(c, msg, err, fields))
    /\ lastCall' = CallRec("Fatal", c, msg, err, fields, ZeroLogModel)
    /\ calls' = calls + 1
    /\ outcome' = "exited"
    /\ UNCHANGED <<tdrOut, syncs, flushed, syncRet, notLog>>

\* l.Panic(ctx, msg, err, fields...): zap writes the entry, then panics; the
\* caller recovers
CallPanic(c, msg, err, fields) ==
    /\ outcome # "exited"
    /\ calls < MaxCalls
    /\ sysOut' = Append(sysOut, Panic(c, msg, err, fields))
    /\ lastCall' = CallRec("Panic", c, msg, err, fields, ZeroLogModel)
    /\ calls' = calls + 1
    /\ outcome' = "panicked"
    /\ UNCHANGED <<tdrOut, syncs, flushed, syncRet, notLog>>

\* l.TDR handing its record to the system sink
CallLogTDR_tosystem(c, log) ==
    /\ outcome # "exited"
    /\ calls < MaxCalls
    /\ sysOut' = Append(sysOut, TDR(c, log))
    /\ lastCall' = CallRec("TDR", c, "", Nil, <<>>, log)
    /\ calls' = calls + 1
    /\ outcome' = "returned"
    /\ UNCHANGED <<tdrOut, syncs, flushed, syncRet, notLog>>

\* l.TDR(ctx, log)
CallLogTDR(c, log) ==
    /\ outcome # "exited"
    /\ calls < MaxCalls
    /\ tdrOut' = Append(tdrOut, TDR(c, log))
    /\ lastCall' = CallRec("TDR", c, "", Nil, <<>>, log)
    /\ calls' = calls + 1
    /\ outcome' = "returned"
    /\ UNCHANGED <<sysOut, syncs, flushed, syncRet, notLog>>

\* l.Sync() that leaves the handle closed
CallSync_closes(err1, err2) ==
    /\ outcome # "exited"
    /\ calls < MaxCalls
    /\ flushed' = SyncFlushes(err1, err2)
    /\ syncRet' = Sync(err1, err2)
    /\ lastCall' = CallRec("Sync", Background, "", Nil, <<>>, ZeroLogModel)
    /\ calls' = calls + 1
    /\ syncs' = syncs + 1
    /\ outcome' = "exited"
    /\ UNCHANGED <<sysOut, tdrOut, notLog>>

\* l.Sync(), the two sinks' Sync returning err1 and err2
CallSync(err1, err2) ==
    /\ outcome # "exited"
    /\ calls < MaxCalls
    /\ flushed' = SyncFlushes(err1, err2)
    /\ syncRet' = Sync(err1, err2)
    /\ lastCall' = CallRec("Sync", Background, "", Nil, <<>>, ZeroLogModel)
    /\ calls' = calls + 1
    /\ syncs' = syncs + 1
    /\ outcome' = "returned"
    /\ UNCHANGED <<sysOut, tdrOut, notLog>>

\* the context and the fields of a log call: a bare call, and a call that
\* gives a field of a key its context also has
LogArgs == { <<Background, <<>>>> } \cup { <<CtxBoth, f>> : f \in CallerFields \ {<<>>} }

LogNext ==
    \/ \E a \in LogArgs, msg \in Messages : CallDebug(a[1], msg, a[2])
    \/ \E a \in LogArgs, msg \in Messages : CallInfo(a[1], msg, a[2])
    \/ \E a \in LogArgs, msg \in Messages : CallWarn(a[1], msg, a[2])
    \/ \E a \in LogArgs, msg \in Messages, err \in Errors : CallError(a[1], msg, err, a[2])
    \/ \E a \in LogArgs, msg \in Messages, err \in Errors : CallFatal(a[1], msg, err, a[2])
    \/ \E a \in LogArgs, msg \in Messages, err \in Errors : CallPanic(a[1], msg, err, a[2])
    \/ \E c \in LogCtxs, log \in LogModels : CallLogTDR(c, log)
    \/ \E err1 \in {Nil, ErrSys}, err2 \in {Nil, ErrTdr} : CallSync(err1, err2)

\* calls on one handle, in any order
SpecLog == LogInit /\ [][LogNext]_vars

----------------------------------------------------------------------------
(* The callers of removeAuth: a header collection is filled, then redacted *)

MaxHeaders == 3

HeaderNames == {"Authorization", "authorization", "Signature", "Apikey", "Content-Type"}
HeaderValues == {"a", "b"}

\* a *fasthttp.RequestHeader: not one of the two types removeAuth asserts
FastHeaderPtr(h) == <<"*fasthttp.RequestHeader", h>>

RECURSIVE HttpLines(_, _)
\* the number of values in an http.Header
HttpLines(f, keys) ==
    IF keys = {}
    THEN 0
    ELSE LET k == CHOOSE x \in keys : TRUE
         IN Len(f[k]) + HttpLines(f, keys \ {k})

HeaderLines(hdr) ==
    CASE Kind(hdr) = "http.Header" -> HttpLines(Val(hdr), DOMAIN Val(hdr))
      [] Kind(hdr) \in {"fasthttp.RequestHeader", "*fasthttp.RequestHeader"} -> Len(Val(hdr))
      [] OTHER -> 0

HdrInit ==
    /\ phase = "build"
    /\ call = "none"
    /\ header \in {HttpHeader(<<>>), FastHeader(<<>>), FastHeaderPtr(<<>>), Nil, Str("raw")}
    /\ headerArg = Nil
    /\ redacted = Nil
    /\ MaskIdle
    /\ CtxIdle
    /\ LoadIdle
    /\ LogIdle
    /\ PkgIdle
    /\ HeapIdle

\* the map with the value appended to the values of the key
HttpAppend(f, k, v) ==
    [j \in DOMAIN f \cup {k} |->
       IF j = k
       THEN (IF k \in DOMAIN f THEN Append(f[k], v) ELSE <<v>>)
       ELSE f[j]]

\* header.Add(k, v): the key is canonicalised
HttpAdd(k, v) ==
    /\ phase = "build"
    /\ Kind(header) = "http.Header"
    /\ HeaderLines(header) < MaxHeaders
    /\ header' = HttpHeader(HttpAppend(Val(header), CanonicalMIMEHeaderKey(k), v))
    /\ UNCHANGED <<phase, call, headerArg, redacted, notHdr>>

\* header[k] = append(header[k], v): the key is taken as written
HttpAssign(k, v) ==
    /\ phase = "build"
    /\ Kind(header) = "http.Header"
    /\ HeaderLines(header) < MaxHeaders
    /\ header' = HttpHeader(HttpAppend(Val(header), k, v))
    /\ UNCHANGED <<phase, call, headerArg, redacted, notHdr>>

\* fasthttp: header.Add(k, v): the key is normalised
FastAdd(k, v) ==
    /\ phase = "build"
    /\ Kind(header) \in {"fasthttp.RequestHeader", "*fasthttp.RequestHeader"}
    /\ HeaderLines(header) < MaxHeaders
    /\ header' = <<Kind(header), Append(Val(header), <<CanonicalMIMEHeaderKey(k), v>>)>>
    /\ UNCHANGED <<phase, call, headerArg, redacted, notHdr>>

\* redacted := removeAuth(header); an http.Header is a map, redacted in place
CallRemoveAuth ==
    /\ phase = "build"
    /\ headerArg' = header
    /\ redacted' = removeAuth(header)
    /\ header' = IF Kind(header) = "http.Header" THEN redacted' ELSE header
    /\ phase' = "done"
    /\ call' = "removeAuth"
    /\ UNCHANGED notHdr

HdrNext ==
    \/ \E k \in HeaderNames, v \in HeaderValues : HttpAdd(k, v)
    \/ \E k \in HeaderNames, v \in HeaderValues : HttpAssign(k, v)
    \/ \E k \in HeaderNames, v \in HeaderValues : FastAdd(k, v)
    \/ CallRemoveAuth

SpecHeader == HdrInit /\ [][HdrNext]_vars

----------------------------------------------------------------------------
(* The callers of the extractor: a context is derived, then read *)

TypedStrings == {"", "typed-1"}
LegacyValues == {Str(""), Str("legacy-1"), Num(7)}

CtxInit ==
    /\ phase = "build"
    /\ call = "none"
    /\ ctx = Background
    /\ ctxFields = <<>>
    /\ MaskIdle
    /\ HdrIdle
    /\ LoadIdle
    /\ LogIdle
    /\ PkgIdle
    /\ HeapIdle

CallWithTraceID(v) ==
    /\ phase = "build"
    /\ ctx' = WithTraceID(ctx, v)
    /\ UNCHANGED <<phase, call, ctxFields, notCtx>>

CallWithSrcIP(v) ==
    /\ phase = "build"
    /\ ctx' = WithSrcIP(ctx, v)
    /\ UNCHANGED <<phase, call, ctxFields, notCtx>>

CallWithPort(v) ==
    /\ phase = "build"
    /\ ctx' = WithPort(ctx, v)
    /\ UNCHANGED <<phase, call, ctxFields, notCtx>>

CallWithPath(v) ==
    /\ phase = "build"
    /\ ctx' = WithPath(ctx, v)
    /\ UNCHANGED <<phase, call, ctxFields, notCtx>>

\* ctx = context.WithValue(ctx, key, val): a legacy key with any value, or a
\* typed key with a value that is no string (the helpers above set the strings)
CallWithValue(key, val) ==
    /\ phase = "build"
    /\ key[1] = "string" \/ Kind(val) # "string"
    /\ ctx' = WithValue(ctx, key, val)
    /\ UNCHANGED <<phase, call, ctxFields, notCtx>>

\* ctxFields := populateFieldFromContext(ctx)
CallPopulate ==
    /\ phase = "build"
    /\ ctxFields' = populateFieldFromContext(ctx)
    /\ phase' = "done"
    /\ call' = "populate"
    /\ UNCHANGED <<ctx, notCtx>>

CtxNext ==
    \/ \E v \in TypedStrings : CallWithTraceID(v)
    \/ \E v \in TypedStrings : CallWithSrcIP(v)
    \/ \E v \in TypedStrings : CallWithPort(v)
    \/ \E v \in TypedStrings : CallWithPath(v)
    \/ \E key \in CtxKeys, val \in LegacyValues : CallWithValue(key, val)
    \/ CallPopulate

SpecCtx == CtxInit /\ [][CtxNext]_vars

----------------------------------------------------------------------------
(* The process-wide accessor: Load, Reset and the package-level calls, one   *)
(* step per access to the package variables once, singleton and mu           *)

MaxResets == 2
MaxLog == 2

\* the process has ended (os.Exit or a fatal error): no goroutine runs on
Exited == [p \in Procs |-> "exited"]

\* NewLogger(config): a fresh *Log, told apart by its identity
NewLogger(id, config) == <<"*Log", <<id, config>>>>

ConfigOf(inst) == Val(inst)[2]

\* the callers of the quiescent specification call Reset between their tests:
\* no Load is running when Reset starts, and none starts while it runs
InLoad(p) == pc[p] \in {"once.Do", "once.lock", "once.check", "construct",
                        "once.store", "once.unlock", "return"}
InReset(p) == pc[p] \in {"reset.once", "reset.singleton", "reset.unlock"}

\* Load(config): the call
LoadCall(p, config) ==
    /\ pc[p] = "idle"
    /\ \A q \in Procs : ~InReset(q)
    /\ arg' = [arg EXCEPT ![p] = config]
    /\ pc' = [pc EXCEPT ![p] = "once.Do"]
    /\ UNCHANGED <<onceDone, onceM, singleton, muW, muR, ret, nextId, resets,
                   sysLog, builtNow, returnedNow, notLoad>>

\* once.Do, fast path: if o.done.Load() == 0 { o.doSlow(f) }
OnceDo(p) ==
    /\ pc[p] = "once.Do"
    /\ pc' = [pc EXCEPT ![p] = IF onceDone THEN "return" ELSE "once.lock"]
    /\ UNCHANGED <<onceDone, onceM, singleton, muW, muR, arg, ret, nextId, resets,
                   sysLog, builtNow, returnedNow, notLoad>>

\* doSlow: o.m.Lock()
OnceLock(p) ==
    /\ pc[p] = "once.lock"
    /\ onceM = NoProc
    /\ onceM' = p
    /\ pc' = [pc EXCEPT ![p] = "once.check"]
    /\ UNCHANGED <<onceDone, singleton, muW, muR, arg, ret, nextId, resets,
                   sysLog, builtNow, returnedNow, notLoad>>

\* doSlow that runs f without looking at the done flag again
OnceCheck_nocheck(p) ==
    /\ pc[p] = "once.check"
    /\ pc' = [pc EXCEPT ![p] = "construct"]
    /\ UNCHANGED <<onceDone, onceM, singleton, muW, muR, arg, ret, nextId, resets,
                   sysLog, builtNow, returnedNow, notLoad>>

\* doSlow: if o.done.Load() == 0 { f() } else unlock and return; Unlock of a
\* mutex that is not locked is a fatal error of the runtime
OnceCheck(p) ==
    /\ pc[p] = "once.check"
    /\ IF onceDone
       THEN /\ onceM' = NoProc
            /\ pc' = IF onceM = NoProc THEN Exited ELSE [pc EXCEPT ![p] = "return"]
       ELSE /\ onceM' = onceM
            /\ pc' = [pc EXCEPT ![p] = "construct"]
    /\ UNCHANGED <<onceDone, singleton, muW, muR, arg, ret, nextId, resets,
                   sysLog, builtNow, returnedNow, notLoad>>

\* f: singleton = NewLogger(config)
Construct(p) ==
    /\ pc[p] = "construct"
    /\ singleton' = NewLogger(nextId, arg[p])
    /\ nextId' = nextId + 1
    /\ builtNow' = builtNow \cup {singleton'}
    /\ pc' = [pc EXCEPT ![p] = "once.store"]
    /\ UNCHANGED <<onceDone, onceM, muW, muR, arg, ret, resets, sysLog,
                   returnedNow, notLoad>>

\* doSlow: defer o.done.Store(1)
OnceStore(p) ==
    /\ pc[p] = "once.store"
    /\ onceDone' = TRUE
    /\ pc' = [pc EXCEPT ![p] = "once.unlock"]
    /\ UNCHANGED <<onceM, singleton, muW, muR, arg, ret, nextId, resets, sysLog,
                   builtNow, returnedNow, notLoad>>

\* doSlow: defer o.m.Unlock(); Unlock of a mutex that is not locked is a fatal
\* error of the runtime
OnceUnlock(p) ==
    /\ pc[p] = "once.unlock"
    /\ onceM' = NoProc
    /\ pc' = IF onceM = NoProc THEN Exited ELSE [pc EXCEPT ![p] = "return"]
    /\ UNCHANGED <<onceDone, singleton, muW, muR, arg, ret, nextId, resets, sysLog,
                   builtNow, returnedNow, notLoad>>

\* return singleton
LoadReturn(p) ==
    /\ pc[p] = "return"
    /\ ret' = [ret EXCEPT ![p] = singleton]
    /\ returnedNow' = returnedNow \cup {singleton}
    /\ arg' = [arg EXCEPT ![p] = NoConfig]
    /\ pc' = [pc EXCEPT ![p] = "idle"]
    /\ UNCHANGED <<onceDone, onceM, singleton, muW, muR, nextId, resets, sysLog,
                   builtNow, notLoad>>

\* Reset: mu.Lock()
ResetLock(p) ==
    /\ pc[p] = "idle"
    /\ resets < MaxResets
    /\ \A q \in Procs : ~InLoad(q)
    /\ muW = NoProc
    /\ muR = {}
    /\ muW' = p
    /\ pc' = [pc EXCEPT ![p] = "reset.once"]
    /\ UNCHANGED <<onceDone, onceM, singleton, muR, arg, ret, nextId, resets, sysLog,
                   builtNow, returnedNow, notLoad>>

\* Reset that leaves the one-time guard as it is
ResetOnce_keepguard(p) ==
    /\ pc[p] = "reset.once"
    /\ pc' = [pc EXCEPT ![p] = "reset.singleton"]
    /\ UNCHANGED <<onceDone, onceM, singleton, muW, muR, arg, ret, nextId, resets,
                   sysLog, builtNow, returnedNow, notLoad>>

\* Reset: once = sync.Once{}
ResetOnce(p) ==
    /\ pc[p] = "reset.once"
    /\ onceDone' = FALSE
    /\ onceM' = NoProc
    /\ pc' = [pc EXCEPT ![p] = "reset.singleton"]
    /\ UNCHANGED <<singleton, muW, muR, arg, ret, nextId, resets, sysLog,
                   builtNow, returnedNow, notLoad>>

\* Reset: singleton = nil
ResetSingleton(p) ==
    /\ pc[p] = "reset.singleton"
    /\ singleton' = Nil
    /\ pc' = [pc EXCEPT ![p] = "reset.unlock"]
    /\ UNCHANGED <<onceDone, onceM, muW, muR, arg, ret, nextId, resets, sysLog,
                   builtNow, returnedNow, notLoad>>

\* Reset: defer mu.Unlock()
ResetUnlock(p) ==
    /\ pc[p] = "reset.unlock"
    /\ muW' = NoProc
    /\ resets' = resets + 1
    /\ builtNow' = {}
    /\ returnedNow' = {}
    /\ pc' = [pc EXCEPT ![p] = "idle"]
    /\ UNCHANGED <<onceDone, onceM, singleton, muR, arg, ret, nextId, sysLog, notLoad>>

\* the package-level Info: mu.RLock()
InfoRLock(p) ==
    /\ pc[p] = "idle"
    /\ Len(sysLog) < MaxLog
    /\ muW = NoProc
    /\ muR' = muR \cup {p}
    /\ pc' = [pc EXCEPT ![p] = "info.check"]
    /\ UNCHANGED <<onceDone, onceM, singleton, muW, arg, ret, nextId, resets, sysLog,
                   builtNow, returnedNow, notLoad>>

\* the package-level Info: if singleton != nil { singleton.Info(msg, fields...) }
InfoEmit(p) ==
    /\ pc[p] = "info.check"
    /\ sysLog' = IF singleton # Nil
                 THEN Append(sysLog, <<singleton, Record("info", "msg", <<>>)>>)
                 ELSE sysLog
    /\ pc' = [pc EXCEPT ![p] = "info.unlock"]
    /\ UNCHANGED <<onceDone, onceM, singleton, muW, muR, arg, ret, nextId, resets,
                   builtNow, returnedNow, notLoad>>

\* the package-level Info: defer mu.RUnlock()
InfoRUnlock(p) ==
    /\ pc[p] = "info.unlock"
    /\ muR' = muR \ {p}
    /\ pc' = [pc EXCEPT ![p] = "idle"]
    /\ UNCHANGED <<onceDone, onceM, singleton, muW, arg, ret, nextId, resets, sysLog,
                   builtNow, returnedNow, notLoad>>

LoadInit ==
    /\ LoadIdle
    /\ phase = "build"
    /\ call = "none"
    /\ MaskIdle
    /\ HdrIdle
    /\ CtxIdle
    /\ LogIdle
    /\ PkgIdle
    /\ HeapIdle

LoadNext ==
    \/ \E p \in Procs, config \in Configs : LoadCall(p, config)
    \/ \E p \in Procs : OnceDo(p)
    \/ \E p \in Procs : OnceLock(p)
    \/ \E p \in Procs : OnceCheck(p)
    \/ \E p \in Procs : Construct(p)
    \/ \E p \in Procs : OnceStore(p)
    \/ \E p \in Procs : OnceUnlock(p)
    \/ \E p \in Procs : LoadReturn(p)
    \/ \E p \in Procs : ResetLock(p)
    \/ \E p \in Procs : ResetOnce(p)
    \/ \E p \in Procs : ResetSingleton(p)
    \/ \E p \in Procs : ResetUnlock(p)
    \/ \E p \in Procs : InfoRLock(p)
    \/ \E p \in Procs : InfoEmit(p)
    \/ \E p \in Procs : InfoRUnlock(p)

\* Load, Reset between the tests, and the package-level calls
SpecLoad == LoadInit /\ [][LoadNext]_vars

----------------------------------------------------------------------------
(* Properties of the masker *)

SensitiveKey(k) == ToLower(k) \in SENSITIVE_ATTR

MaskedStr == Str("*****")

RECURSIVE AllSensitiveMasked(_)
\* every entry with a sensitive key, at any depth, holds "*****"
AllSensitiveMasked(v) ==
    CASE Kind(v) = "map" ->
            \A k \in DOMAIN Val(v) :
                /\ SensitiveKey(k) => Val(v)[k] = MaskedStr
                /\ AllSensitiveMasked(Val(v)[k])
      [] Kind(v) = "slice" ->
            \A i \in 1..Len(Val(v)) : AllSensitiveMasked(Val(v)[i])
      [] OTHER -> TRUE

MaskedAMap == phase = "done" /\ call = "maskField" /\ IsMap(body)

\* C1: in the result of masking a mapping, every entry at any depth whose key
\* is sensitive (case-insensitively) holds exactly "*****", whatever the shape
\* of the original value.
C1_SensitiveAlwaysMasked == MaskedAMap => AllSensitiveMasked(masked)

RECURSIVE Preserved(_, _)
\* out has the structure of in: the same keys at every depth, the same
\* non-sensitive plain values, sequences of the same length and order with the
\* same non-mapping elements
Preserved(in, out) ==
    CASE Kind(in) = "nilmap" -> out = NilMap
      [] Kind(in) = "map" ->
            /\ Kind(out) = "map"
            /\ DOMAIN Val(out) = DOMAIN Val(in)
            /\ \A k \in DOMAIN Val(in) :
                  LET a == Val(in)[k]
                      b == Val(out)[k]
                  IN CASE IsMap(a) -> Preserved(a, b)
                       [] IsSlice(a) ->
                            /\ Kind(b) = "slice"
                            /\ Len(Val(b)) = Len(Val(a))
                            /\ \A i \in 1..Len(Val(a)) :
                                  IF IsMap(Val(a)[i])
                                  THEN Preserved(Val(a)[i], Val(b)[i])
                                  ELSE Val(b)[i] = Val(a)[i]
                       [] OTHER -> ~SensitiveKey(k) => b = a
      [] OTHER -> out = in

\* C2: masking preserves structure: the same key set at every depth, every
\* entry with a non-sensitive key keeps its value, every sequence keeps its
\* length, its order and its non-mapping elements.
C2_StructurePreserved == MaskedAMap => Preserved(body, masked)

C2_Witness ==
    /\ MaskedAMap
    /\ body = Map([k \in {"name"} |->
                     Slice(<<Map([j \in {"password"} |-> Str("secret")]), Num(1)>>)])
    /\ masked = Map([k \in {"name"} |->
                       Slice(<<Map([j \in {"password"} |-> MaskedStr]), Num(1)>>)])

\* a payload that is raw bytes or a string holding JSON object text
IsObjectText(v) ==
    /\ Kind(v) \in {"string", "bytes"}
    /\ ~UnmarshalErr(Val(v))
    /\ Kind(UnmarshalMap(Val(v))) = "map"

LastTDR == tdrLog[Len(tdrLog)]

AsIfMapping(v) == maskFieldMap(UnmarshalMap(Val(v)))

\* C3: for every TDR call whose Request or Response is raw bytes or a string
\* holding valid JSON object text, the request/response field handed to the
\* transaction-detail sink is the masked mapping (the result for the equivalent
\* mapping), with no sensitive-key value other than "*****".
C3_TextPayloadMasked ==
    (phase = "done" /\ call = "TDR") =>
        /\ IsObjectText(logModel.Request) =>
              /\ FieldOf(LastTDR, "request") = AsIfMapping(logModel.Request)
              /\ AllSensitiveMasked(FieldOf(LastTDR, "request"))
        /\ IsObjectText(logModel.Response) =>
              /\ FieldOf(LastTDR, "response") = AsIfMapping(logModel.Response)
              /\ AllSensitiveMasked(FieldOf(LastTDR, "response"))

\* a bytes or string payload that is not parseable as a JSON object: the
\* decoder rejects it
IsMalformedText(v) == Kind(v) \in {"string", "bytes"} /\ UnmarshalErr(Val(v))

MaskedAText == phase = "done" /\ call = "maskField" /\ IsMalformedText(body)

\* C4 (as claimed): for every byte or string payload that is not parseable as a
\* JSON object, maskField returns the original input unchanged, in value and in
\* kind (bytes stay bytes, text stays text).
C4_MalformedUnchanged == MaskedAText => masked = body

\* C4 (amended): for every byte or string payload that the JSON decoder
\* rejects, maskField returns the original text: a string payload and the
\* empty bytes payload unchanged, non-empty bytes as the string of the same
\* text (bytes become text).
C4_MalformedKeepsText ==
    MaskedAText =>
        CASE Kind(body) = "string" -> masked = body
          [] Val(body) = "" -> masked = body
          [] OTHER -> masked = Str(Val(body))

C4_Witness ==
    /\ MaskedAText
    /\ body = Bytes(TxtTruncated)
    /\ masked = Str(TxtTruncated)

\* C5: masking is idempotent: masking the result of masking a mapping gives
\* that result again.
C5_Idempotent == MaskedAMap => maskField(masked) = masked

C5_Witness ==
    /\ MaskedAMap
    /\ masked # body
    /\ \E k \in DOMAIN Val(body) : IsSlice(Val(body)[k]) /\ Len(Val(Val(body)[k])) > 0
    /\ maskField(masked) = masked

RECURSIVE RecursionRule(_, _)

\* out is what the recursion rule makes of the mapping in: per entry, a mapping
\* value is recursed into, a sequence value has its mapping elements recursed
\* into and its other elements passed through, and only a value of another
\* shape has its key compared with the sensitive keys
RecursionRule(in, out) ==
    IF in = NilMap
    THEN out = NilMap
    ELSE /\ Kind(out) = "map"
         /\ DOMAIN Val(out) = DOMAIN Val(in)
         /\ \A key \in DOMAIN Val(in) :
               LET value == Val(in)[key]
                   res == Val(out)[key]
               IN CASE IsMap(value) -> RecursionRule(value, res)
                    [] IsSlice(value) ->
                          /\ IsSlice(res)
                          /\ Len(Val(res)) = Len(Val(value))
                          /\ \A i \in 1..Len(Val(value)) :
                                IF IsMap(Val(value)[i])
                                THEN RecursionRule(Val(value)[i], Val(res)[i])
                                ELSE Val(res)[i] = Val(value)[i]
                    [] OTHER -> res = IF SensitiveKey(key) THEN MaskedStr ELSE value

\* C18: the recursion rule of the masker, applied to every mapping entry: a
\* value that is a mapping is recursed into, in a sequence each element that
\* is a mapping is recursed into and every other element passes through
\* unmodified, and only otherwise is the key compared with the sensitive-key
\* set: the value's shape decides first, the key second.
C18_ShapeBeforeKey == MaskedAMap => RecursionRule(body, masked)

\* a mapping under a sensitive key is recursed into, not replaced
C18_Witness ==
    /\ MaskedAMap
    /\ body = Map([k \in {"password"} |-> Map([j \in {"Token"} |-> Str("secret")])])
    /\ masked = Map([k \in {"password"} |-> Map([j \in {"Token"} |-> MaskedStr])])

----------------------------------------------------------------------------
(* Properties of the header redaction *)

SensitiveNames == {SENSITIVE_HEADER[i] : i \in 1..Len(SENSITIVE_HEADER)}

\* http.Header.Get(key): the first value under the canonical key, else ""
HttpGet(f, key) ==
    IF CanonicalMIMEHeaderKey(key) \in DOMAIN f /\ Len(f[CanonicalMIMEHeaderKey(key)]) > 0
    THEN f[CanonicalMIMEHeaderKey(key)][1]
    ELSE ""

\* the header lines of a fasthttp header whose name is not sensitive, in order
OtherLines(h) == SelectSeq(h, LAMBDA kv : kv[1] \notin SensitiveNames)

\* C6: removeAuth removes every configured sensitive header name and leaves
\* every other header and its values untouched, for an http.Header (the same
\* collection) and for a fasthttp RequestHeader (returned in its wire form);
\* an input of any other type is returned unchanged.
C6_HeadersRedacted ==
    (phase = "done" /\ call = "removeAuth") =>
        CASE Kind(headerArg) = "http.Header" ->
                /\ Kind(redacted) = "http.Header"
                /\ header = redacted
                /\ DOMAIN Val(redacted) = DOMAIN Val(headerArg) \ SensitiveNames
                /\ \A k \in DOMAIN Val(redacted) : Val(redacted)[k] = Val(headerArg)[k]
                /\ \A n \in SensitiveNames : HttpGet(Val(redacted), n) = ""
          [] Kind(headerArg) = "fasthttp.RequestHeader" ->
                /\ Kind(redacted) = "string"
                /\ Val(redacted) = <<RequestLine, OtherLines(Val(headerArg))>>
          [] OTHER -> redacted = headerArg /\ header = headerArg

C6_Witness ==
    /\ phase = "done"
    /\ call = "removeAuth"
    /\ Kind(headerArg) = "http.Header"
    /\ DOMAIN Val(headerArg) = {"Authorization", "Apikey", "Content-Type"}
    /\ DOMAIN Val(redacted) = {"Content-Type"}

----------------------------------------------------------------------------
(* Properties of the context field extractor *)

Slots == {<<TraceIDKey, "traceId">>, <<SrcIPKey, "srcIP">>,
          <<PortKey, "port">>, <<PathKey, "path">>}

SlotOrder == <<"traceId", "srcIP", "port", "path">>

\* the positions of the fields of a key
Positions(fields, name) == {i \in 1..Len(fields) : fields[i][1] = name}

\* the index of a key in the fixed order
OrderOf(name) == CHOOSE i \in 1..Len(SlotOrder) : SlotOrder[i] = name

Populated == phase = "done" /\ call = "populate"

C8_TypedKeyWins ==
    Populated =>
        \A slot \in Slots :
            LET typed == ctx[slot[1]]
                legacy == ctx[LegacyKey(slot[2])]
            IN /\ NonEmptyString(typed) =>
                     \A i \in Positions(ctxFields, slot[2]) : ctxFields[i][2] = typed
               /\ ((typed = Nil \/ typed = Str("")) /\ NonEmptyString(legacy)) =>
                     /\ Positions(ctxFields, slot[2]) # {}
                     /\ \A i \in Positions(ctxFields, slot[2]) : ctxFields[i][2] = legacy

C8_Witness ==
    /\ Populated
    /\ ctx[TraceIDKey] = Str("typed-1")
    /\ ctx[LegacyKey("traceId")] = Str("legacy-1")
    /\ ctx[PortKey] = Str("")
    /\ ctx[LegacyKey("port")] = Str("legacy-1")
    /\ ctxFields = << Field("traceId", Str("typed-1")), Field("port", Str("legacy-1")) >>

----------------------------------------------------------------------------
(* Properties of the process-wide accessor *)

ResetRunning == \E p \in Procs : InReset(p)

\* C9: between process start (or a completed Reset) and the next Reset, under
\* every interleaving of concurrent Load calls with any configurations, exactly
\* one Dispatcher is constructed and every Load returns that instance; the
\* configuration of a later Load is ignored.
C9_OneInstancePerEpoch ==
    /\ Cardinality(builtNow) <= 1
    /\ returnedNow \subseteq builtNow
    /\ (builtNow # {} /\ ~ResetRunning) => singleton \in builtNow
    /\ \A p \in Procs : pc[p] = "return" => singleton \in builtNow

C9_Witness ==
    /\ pc["g1"] = "once.store"
    /\ arg["g1"] = "cfgA"
    /\ pc["g2"] = "once.lock"
    /\ arg["g2"] = "cfgB"
    /\ singleton = NewLogger(1, "cfgA")

\* after Reset's writes nothing is cached and the guard is fresh; what Load
\* returns after a Reset was constructed after it
C10_State ==
    /\ \A p \in Procs :
          pc[p] = "reset.unlock" => (singleton = Nil /\ ~onceDone /\ onceM = NoProc)
    /\ resets >= 1 => returnedNow \subseteq builtNow

\* a step taken while nothing is cached emits nothing; the construction caches
\* a new instance of the configuration given to the constructing call
C10_Step ==
    /\ singleton = Nil => sysLog' = sysLog
    /\ \A p \in Procs :
          (pc[p] = "construct" /\ pc'[p] # "construct") =>
              /\ singleton' # Nil
              /\ singleton' # singleton
              /\ singleton' \notin {sysLog[i][1] : i \in 1..Len(sysLog)}
              /\ ConfigOf(singleton') = arg[p]

\* C10: Reset discards the cached instance and the one-time guard: after a
\* Reset the package-level calls are no-ops again until the next Load, and the
\* next Load runs construction again with the configuration given to it and
\* caches the new instance, which it and all later Loads return.
C10_ResetStartsOver == [](C10_State) /\ [][C10_Step]_vars

C10_Witness ==
    /\ resets = 1
    /\ Len(sysLog) = 2
    /\ sysLog[1][1] = NewLogger(1, "cfgA")
    /\ sysLog[2][1] = NewLogger(2, "cfgB")
    /\ ret["g1"] = NewLogger(2, "cfgB")
    /\ ret["g2"] = NewLogger(2, "cfgB")

----------------------------------------------------------------------------
(* Properties of a handle *)

LevelOps == {"Debug", "Info", "Warn", "Error", "Fatal", "Panic"}
ErrorOps == {"Error", "Fatal", "Panic"}

\* the severity of each method
LevelOf(o) ==
    CASE o = "Debug" -> "debug"
      [] o = "Info" -> "info"
      [] o = "Warn" -> "warn"
      [] o = "Error" -> "error"
      [] o = "Fatal" -> "fatal"
      [] o = "Panic" -> "panic"

LastSys == sysOut[Len(sysOut)]
LastTdrOut == tdrOut[Len(tdrOut)]

KeysOf(fields) == [i \in 1..Len(fields) |-> fields[i][1]]

\* C13: Sync always attempts to flush both sinks, the system sink first and
\* the transaction-detail sink second, even when the system sink's flush
\* fails; it returns the system sink's error if that failed, otherwise the
\* transaction sink's error, and no error only when both succeed.
C13_SyncFlushesBoth ==
    lastCall.op = "Sync" =>
        /\ Len(flushed) = 2
        /\ flushed[1][1] = "logger"
        /\ flushed[2][1] = "loggerTDR"
        /\ syncRet = IF flushed[1][2] # Nil THEN flushed[1][2] ELSE flushed[2][2]
        /\ syncRet = Nil <=> (flushed[1][2] = Nil /\ flushed[2][2] = Nil)

\* the system sink failed, the transaction sink was flushed all the same
C13_Witness ==
    /\ lastCall.op = "Sync"
    /\ flushed = << <<"logger", ErrSys>>, <<"loggerTDR", Nil>> >>
    /\ syncRet = ErrSys

\* Sync returns and leaves the handle usable
C14_State == lastCall.op = "Sync" => outcome = "returned"

\* Sync hands nothing to a sink and takes nothing from it; a call after any
\* number of Syncs emits its record; a Sync right after a Sync changes nothing
C14_Step ==
    /\ syncs' = syncs + 1 => (sysOut' = sysOut /\ tdrOut' = tdrOut)
    /\ (syncs > 0 /\ calls' = calls + 1 /\ syncs' = syncs) =>
          IF lastCall'.op = "TDR"
          THEN tdrOut' = Append(tdrOut, TDR(lastCall'.c, lastCall'.log))
          ELSE /\ Len(sysOut') = Len(sysOut) + 1
               /\ SubSeq(sysOut', 1, Len(sysOut)) = sysOut
               /\ sysOut'[Len(sysOut')].level = LevelOf(lastCall'.op)
    /\ (lastCall.op = "Sync" /\ syncs' = syncs + 1) =>
          (outcome' = outcome /\ lastCall' = lastCall)

\* C14: Sync does not change the handle's state: there is no closed state, so
\* after any number of Sync calls, successful or failed, every later log or
\* TDR call still emits its record to its sink, and repeating Sync with
\* nothing logged in between has no further effect.
C14_SyncKeepsReady == [](C14_State) /\ [][C14_Step]_vars

\* two Syncs, the last one failed, then Info emitted its record
C14_Witness ==
    /\ syncs = 2
    /\ syncRet = ErrSys
    /\ lastCall.op = "Info"
    /\ Len(sysOut) = 1
    /\ LastSys.level = "info"

C15_Step ==
    calls' = calls + 1 =>
        CASE lastCall'.op \in LevelOps ->
                /\ Len(sysOut') = Len(sysOut) + 1
                /\ SubSeq(sysOut', 1, Len(sysOut)) = sysOut
                /\ sysOut'[Len(sysOut')].level = LevelOf(lastCall'.op)
                /\ tdrOut' = tdrOut
          [] lastCall'.op = "TDR" ->
                /\ Len(tdrOut') = Len(tdrOut) + 1
                /\ SubSeq(tdrOut', 1, Len(tdrOut)) = tdrOut
                /\ sysOut' = sysOut
          [] OTHER -> sysOut' = sysOut /\ tdrOut' = tdrOut

\* C15: every Debug/Info/Warn/Error/Fatal/Panic call on a handle hands exactly
\* one record, at that call's own severity, to the system sink and none to the
\* transaction-detail sink; every TDR call hands exactly one record to the
\* transaction-detail sink and none to the system sink.
C15_DualSinkRouting == [][C15_Step]_vars

C15_Witness ==
    /\ lastCall.op = "TDR"
    /\ Len(tdrOut) = 1
    /\ Len(sysOut) = 2
    /\ sysOut[1].level = "warn"
    /\ sysOut[2].level = "panic"

\* C16: the field sequence of a standard log record is the caller's fields in
\* the order given, then the context fields of the extractor, then, for Error,
\* Fatal and Panic only, one field keyed "error"; duplicate keys of caller and
\* context fields are both kept.
C16_FieldOrder ==
    lastCall.op \in LevelOps =>
        LET given == lastCall.fields
            fromCtx == populateFieldFromContext(lastCall.c)
            n == Len(given)
            m == Len(fromCtx)
            got == LastSys.fields
        IN /\ LastSys.msg = lastCall.msg
           /\ Len(got) = n + m + (IF lastCall.op \in ErrorOps THEN 1 ELSE 0)
           /\ SubSeq(got, 1, n) = given
           /\ SubSeq(got, n + 1, n + m) = fromCtx
           /\ lastCall.op \in ErrorOps => got[n + m + 1][1] = "error"

C16_Witness ==
    /\ lastCall.op = "Error"
    /\ lastCall.c = CtxBoth
    /\ KeysOf(LastSys.fields) = <<"traceId", "filename", "traceId", "path", "error">>
    /\ LastSys.fields[1][2] = Str("caller")
    /\ LastSys.fields[3][2] = Str("trace-123")

TDRKeys ==
    <<"correlationId", "header", "request", "statusCode", "method", "httpStatus",
      "response", "rt", "error", "otherData">>

\* C17: the fields of a TDR record are, in order, the context fields, then
\* correlationId, header, request, statusCode, method, httpStatus, response,
\* rt (the latency in whole milliseconds), error, otherData; all ten are there
\* whatever the input, and the message is a fixed literal.
C17_TDRFieldOrder ==
    lastCall.op = "TDR" =>
        LET fromCtx == populateFieldFromContext(lastCall.c)
            m == Len(fromCtx)
            got == LastTdrOut.fields
            rt == got[m + 8][2]
        IN /\ LastTdrOut.msg = ":"
           /\ Len(got) = m + 10
           /\ SubSeq(got, 1, m) = fromCtx
           /\ KeysOf(SubSeq(got, m + 1, m + 10)) = TDRKeys
           /\ got[m + 1][2] = Str(lastCall.log.CorrelationID)
           /\ Kind(rt) = "int64"
           /\ Val(rt) * 1000000 <= lastCall.log.ResponseTime
           /\ lastCall.log.ResponseTime < (Val(rt) + 1) * 1000000

\* a LogModel{} gives all ten fields after the context fields
C17_Witness ==
    /\ lastCall.op = "TDR"
    /\ lastCall.log = ZeroLogModel
    /\ lastCall.c = CtxBoth
    /\ KeysOf(LastTdrOut.fields) = <<"traceId", "path">> \o TDRKeys
    /\ Len(tdrOut) = 2
    /\ tdrOut[1].fields[8][2] = <<"int64", 1>>

\* what the encoder writes for a field value: an error is written as its text
Rendered(v) == IF Kind(v) = "error" THEN Str(Val(v)) ELSE v

\* C19: the value of the "error" field of an Error, Fatal or Panic record is
\* the parsed mapping when the error's text is JSON object text, the plain
\* message string otherwise, and nil for a nil error.
C19_ErrorUnwrapped ==
    lastCall.op \in ErrorOps =>
        LET v == LastSys.fields[Len(LastSys.fields)][2]
            e == lastCall.err
        IN CASE e = Nil -> v = Nil
             [] e # Nil /\ ~UnmarshalErr(Val(e)) -> Rendered(v) = UnmarshalMap(Val(e))
             [] OTHER -> Rendered(v) = Str(Val(e))

----------------------------------------------------------------------------
(* Load, Reset and the package-level calls with no order kept between them:  *)
(* Load reads and writes once and singleton without holding mu               *)

MaxRaceResets == 1
MaxPkgCalls == 2

PkgOps == {"WithContext", "Debug", "Info", "Warn", "Error", "Fatal", "Panic", "TDR", "Sync"}

InPkg(p) == pc[p] \in {"pkg.check", "pkg.unlock"}

\* the goroutine that calls Load, with its configuration, and the goroutine
\* that calls Reset; both make package-level calls
Loaders == {"g1"}
Resetters == {"g2"}
RaceConfigs == {"cfgA"}

\* an interface value read while it is being stored: the type word of a *Log
\* with a nil pointer
HalfLog == <<"(*Log)(nil)", "nil">>

\* Load(config): the call, whatever the other goroutines do
LoadCallAnytime(p, config) ==
    /\ pc[p] = "idle"
    /\ arg' = [arg EXCEPT ![p] = config]
    /\ pc' = [pc EXCEPT ![p] = "once.Do"]
    /\ UNCHANGED <<onceDone, onceM, singleton, muW, muR, ret, nextId, resets,
                   sysLog, builtNow, returnedNow, notLoad>>

\* return singleton, read while another goroutine stores to it
LoadReturnTorn(p) ==
    /\ pc[p] = "return"
    /\ \E q \in Procs \ {p} : pc[q] \in {"construct", "reset.singleton"}
    /\ ret' = [ret EXCEPT ![p] = HalfLog]
    /\ returnedNow' = returnedNow \cup {HalfLog}
    /\ arg' = [arg EXCEPT ![p] = NoConfig]
    /\ pc' = [pc EXCEPT ![p] = "idle"]
    /\ UNCHANGED <<onceDone, onceM, singleton, muW, muR, nextId, resets, sysLog,
                   builtNow, notLoad>>

\* Reset: mu.Lock() that does not wait for the readers
ResetLockAnytime_noreaders(p) ==
    /\ pc[p] = "idle"
    /\ resets < MaxRaceResets
    /\ muW = NoProc
    /\ muW' = p
    /\ pc' = [pc EXCEPT ![p] = "reset.once"]
    /\ UNCHANGED <<onceDone, onceM, singleton, muR, arg, ret, nextId, resets, sysLog,
                   builtNow, returnedNow, notLoad>>

\* Reset: mu.Lock(), whatever the Load calls do
ResetLockAnytime(p) ==
    /\ pc[p] = "idle"
    /\ resets < MaxRaceResets
    /\ muW = NoProc
    /\ muR = {}
    /\ muW' = p
    /\ pc' = [pc EXCEPT ![p] = "reset.once"]
    /\ UNCHANGED <<onceDone, onceM, singleton, muR, arg, ret, nextId, resets, sysLog,
                   builtNow, returnedNow, notLoad>>

\* a package-level call: mu.RLock()
PkgRLock(p, o) ==
    /\ pc[p] = "idle"
    /\ pkgCalls < MaxPkgCalls
    /\ muW = NoProc
    /\ muR' = muR \cup {p}
    /\ op' = [op EXCEPT ![p] = o]
    /\ pkgCalls' = pkgCalls + 1
    /\ pc' = [pc EXCEPT ![p] = "pkg.check"]
    /\ UNCHANGED <<onceDone, onceM, singleton, muW, arg, ret, nextId, resets, sysLog,
                   builtNow, returnedNow, result, pkgTdrLog, notPkg>>

\* what the call on the *Log inst makes of the package-level call o
PkgResult(o, inst, err) ==
    CASE o = "Sync" -> <<"returned", err>>
      [] o = "WithContext" -> <<"returned", <<"WithContext", inst>>>>
      [] o = "Panic" -> <<"panicked", Nil>>
      [] o = "Fatal" -> <<"exited", Nil>>
      [] OTHER -> <<"returned", Nil>>

\* a package-level call that calls the method without the nil test
PkgCall_nocheck(p, err) ==
    /\ pc[p] = "pkg.check"
    /\ result' = [result EXCEPT ![p] = IF singleton = Nil
                                       THEN <<"panicked", Nil>>
                                       ELSE PkgResult(op[p], singleton, err)]
    /\ pc' = [pc EXCEPT ![p] = "pkg.unlock"]
    /\ UNCHANGED <<onceDone, onceM, singleton, muW, muR, arg, ret, nextId, resets,
                   sysLog, builtNow, returnedNow, op, pkgTdrLog, pkgCalls, notPkg>>

\* a package-level call: if singleton != nil { singleton.M(...) } (Sync and
\* WithContext: return nil otherwise); err is what the handle's Sync returns
PkgCall(p, err) ==
    /\ pc[p] = "pkg.check"
    /\ IF singleton = Nil
       THEN /\ UNCHANGED <<sysLog, pkgTdrLog>>
            /\ result' = [result EXCEPT ![p] = <<"returned", Nil>>]
            /\ pc' = [pc EXCEPT ![p] = "pkg.unlock"]
       ELSE /\ sysLog' = IF op[p] \in LevelOps
                         THEN Append(sysLog, <<singleton, Record(LevelOf(op[p]), "msg", <<>>)>>)
                         ELSE sysLog
            /\ pkgTdrLog' = IF op[p] = "TDR"
                            THEN Append(pkgTdrLog, <<singleton, TDR(Background, ZeroLogModel)>>)
                            ELSE pkgTdrLog
            /\ result' = [result EXCEPT ![p] = PkgResult(op[p], singleton, err)]
            /\ pc' = IF op[p] = "Fatal" THEN Exited ELSE [pc EXCEPT ![p] = "pkg.unlock"]
    /\ UNCHANGED <<onceDone, onceM, singleton, muW, muR, arg, ret, nextId, resets,
                   builtNow, returnedNow, op, pkgCalls, notPkg>>

\* the same read of singleton while a Load stores to it: the type word is
\* seen, the pointer is not, and the method call dereferences nil
PkgCallTorn(p) ==
    /\ pc[p] = "pkg.check"
    /\ \E q \in Procs \ {p} : pc[q] = "construct"
    /\ result' = [result EXCEPT ![p] = <<"panicked", Nil>>]
    /\ pc' = [pc EXCEPT ![p] = "pkg.unlock"]
    /\ UNCHANGED <<onceDone, onceM, singleton, muW, muR, arg, ret, nextId, resets,
                   sysLog, builtNow, returnedNow, op, pkgTdrLog, pkgCalls, notPkg>>

\* a package-level call: defer mu.RUnlock(); a panic goes on to the caller,
\* who recovers from it or not
PkgRUnlock(p, recovers) ==
    /\ pc[p] = "pkg.unlock"
    /\ muR' = muR \ {p}
    /\ op' = [op EXCEPT ![p] = "none"]
    /\ result' = [result EXCEPT ![p] = NoResult]
    /\ pc' = IF result[p][1] = "panicked" /\ ~recovers
             THEN Exited
             ELSE [pc EXCEPT ![p] = "idle"]
    /\ UNCHANGED <<onceDone, onceM, singleton, muW, arg, ret, nextId, resets, sysLog,
                   builtNow, returnedNow, pkgTdrLog, pkgCalls, notPkg>>

RaceInit ==
    /\ LoadIdle
    /\ PkgIdle
    /\ HeapIdle
    /\ phase = "build"
    /\ call = "none"
    /\ MaskIdle
    /\ HdrIdle
    /\ CtxIdle
    /\ LogIdle

RaceNext ==
    \/ \E p \in Loaders, config \in RaceConfigs : LoadCallAnytime(p, config)
    \/ \E p \in Procs : OnceDo(p)
    \/ \E p \in Procs : OnceLock(p)
    \/ \E p \in Procs : OnceCheck(p)
    \/ \E p \in Procs : Construct(p)
    \/ \E p \in Procs : OnceStore(p)
    \/ \E p \in Procs : OnceUnlock(p)
    \/ \E p \in Procs : LoadReturn(p)
    \/ \E p \in Procs : LoadReturnTorn(p)
    \/ \E p \in Resetters : ResetLockAnytime(p)
    \/ \E p \in Procs : ResetOnce(p)
    \/ \E p \in Procs : ResetSingleton(p)
    \/ \E p \in Procs : ResetUnlock(p)
    \/ \E p \in Procs, o \in PkgOps : PkgRLock(p, o)
    \/ \E p \in Procs, err \in {Nil, ErrSys} : PkgCall(p, err)
    \/ \E p \in Procs : PkgCallTorn(p)
    \/ \E p \in Procs, recovers \in BOOLEAN : PkgRUnlock(p, recovers)

\* every interleaving of Load, Reset and the package-level calls
SpecRace == RaceInit /\ [][RaceNext]_vars

----------------------------------------------------------------------------
(* Properties of the package-level calls *)

\* goroutine p reads singleton in this step
ReadsSingleton(p) == pc[p] = "pkg.check" /\ result'[p] # result[p]

\* no instance is cached and no Load is storing one
NothingCached == singleton = Nil /\ \A q \in Procs : pc[q] # "construct"

C11_Step ==
    \A p \in Procs :
        (ReadsSingleton(p) /\ NothingCached) =>
            /\ sysLog' = sysLog
            /\ pkgTdrLog' = pkgTdrLog
            /\ result'[p] = <<"returned", Nil>>
            /\ pc' = [pc EXCEPT ![p] = "pkg.unlock"]
            /\ singleton' = singleton
            /\ onceDone' = onceDone
            /\ onceM' = onceM

C12_ReadersWriter ==
    /\ \A p \in Procs : InPkg(p) => (p \in muR /\ muW = NoProc)
    /\ \A p \in Procs : InReset(p) => (muW = p /\ muR = {} /\ \A q \in Procs : ~InPkg(q))

\* two package-level calls in progress at once
C12_Witness ==
    /\ pc["g1"] = "pkg.check"
    /\ pc["g2"] = "pkg.unlock"
    /\ muR = {"g1", "g2"}
    /\ singleton # Nil

\* what Load returned is a constructed instance
C20_State == Nil \notin returnedNow /\ HalfLog \notin returnedNow

\* a cached pointer is replaced by Reset only
C20_Step ==
    (singleton # Nil /\ singleton' # singleton) =>
        \E p \in Procs : pc[p] = "reset.singleton" /\ pc'[p] = "reset.unlock"

\* C20: every Load call returns a non-nil, fully constructed instance, and a
\* pointer installed by Load stays cached until the next Reset, under every
\* interleaving of Load calls with Reset and with package-level calls.
C20_LoadReturnsInstance == [](C20_State) /\ [][C20_Step]_vars

----------------------------------------------------------------------------
(* The payload in memory.  A map[string]interface{} and a []interface{} are  *)
(* references: heap[a] is the mapping or the backing array at address a,  *)
(* and a value of these types is the address.  make and json.Unmarshal    *)
(* allocate at the next address.                                          *)

MapRef(a) == <<"*map", a>>
SliceRef(a) == <<"*slice", a>>

IsMapRef(v) == Kind(v) \in {"*map", "nilmap"}
IsSliceRef(v) == Kind(v) = "*slice"

\* make(map[string]interface{}, n) / make([]interface{}, n)
MakeMapCell == Map(<<>>)
MakeSliceCell(n) == Slice([i \in 1..n |-> Nil])

\* h after m[key] = value, m the mapping at a
SetKey(h, a, key, value) ==
    [h EXCEPT ![a] = Map([k \in DOMAIN Val(@) \cup {key} |->
                            IF k = key THEN value ELSE Val(@)[k]])]

\* h after s[i] = value, s the sequence at a
SetIndex(h, a, i, value) == [h EXCEPT ![a] = Slice([Val(@) EXCEPT ![i] = value])]

RECURSIVE NewValue(_, _)
RECURSIVE NewEntries(_, _, _, _)
RECURSIVE NewItems(_, _, _, _)

\* the decoder storing the members f[key], key in keys, into the mapping at a
NewEntries(h, f, a, keys) ==
    IF keys = {}
    THEN h
    ELSE LET key == CHOOSE k \in keys : TRUE
             u == NewValue(h, f[key])
         IN  NewEntries(SetKey(u[1], a, key, u[2]), f, a, keys \ {key})

\* the decoder storing the elements s[i..] into the sequence at a
NewItems(h, s, a, i) ==
    IF i > Len(s)
    THEN h
    ELSE LET u == NewValue(h, s[i])
         IN  NewItems(SetIndex(u[1], a, i, u[2]), s, a, i + 1)

\* the decoder allocating the decoded value v: <<heap, value>>
NewValue(h, v) ==
    CASE Kind(v) = "map" ->
            << NewEntries(Append(h, MakeMapCell), Val(v), Len(h) + 1, DOMAIN Val(v)),
               MapRef(Len(h) + 1) >>
      [] Kind(v) = "slice" ->
            << NewItems(Append(h, MakeSliceCell(Len(Val(v)))), Val(v), Len(h) + 1, 1),
               SliceRef(Len(h) + 1) >>
      [] OTHER -> <<h, v>>

\* json.Unmarshal(text, &m) when it succeeds: <<heap, m>>
UnmarshalRef(h, text) == NewValue(h, UnmarshalMap(text))

RECURSIVE maskFieldMapRef(_, _)
RECURSIVE maskEntries(_, _, _, _)
RECURSIVE maskItems(_, _, _, _)

\* for i, item := range v, from index i on: fills the sequence at dst
maskItems(h, v, dst, i) ==
    IF i > Len(Val(h[v]))
    THEN h
    ELSE LET item == Val(h[v])[i] IN
         IF IsMapRef(item)
         THEN LET m == maskFieldMapRef(h, item)
              IN  maskItems(SetIndex(m[1], dst, i, m[2]), v, dst, i + 1)
         ELSE maskItems(SetIndex(h, dst, i, item), v, dst, i + 1)

\* for key, value := range bodyMap, over the keys not yet visited: fills the
\* mapping at dst.  Go visits the keys in an order of its choosing; the
\* order only decides which address each allocation gets.
maskEntries(h, bodyMap, dst, keys) ==
    IF keys = {}
    THEN h
    ELSE LET key == CHOOSE k \in keys : TRUE
             value == Val(h[bodyMap])[key]
             rest == keys \ {key}
         IN  CASE IsMapRef(value) ->
                    LET m == maskFieldMapRef(h, value)
                    IN  maskEntries(SetKey(m[1], dst, key, m[2]), bodyMap, dst, rest)
               [] IsSliceRef(value) ->
                    LET n == Len(Val(h[Val(value)]))
                        filled == maskItems(Append(h, MakeSliceCell(n)),
                                            Val(value), Len(h) + 1, 1)
                    IN  maskEntries(SetKey(filled, dst, key, SliceRef(Len(h) + 1)),
                                    bodyMap, dst, rest)
               [] OTHER ->
                    maskEntries(SetKey(h, dst, key,
                                       IF isSensitiveField(key)
                                       THEN Str(MaskText)
                                       ELSE value),
                                bodyMap, dst, rest)

\* maskFieldMap that masks the caller's mapping where it is
maskFieldMapRef_inplace(h, bodyMap) ==
    IF bodyMap = NilMap
    THEN <<h, NilMap>>
    ELSE << maskEntries(h, Val(bodyMap), Val(bodyMap), DOMAIN Val(h[Val(bodyMap)])),
            bodyMap >>

\* maskFieldMap on the heap h: <<heap, result>>
maskFieldMapRef(h, bodyMap) ==
    IF bodyMap = NilMap
    THEN <<h, NilMap>>
    ELSE << maskEntries(Append(h, MakeMapCell), Val(bodyMap), Len(h) + 1,
                        DOMAIN Val(h[Val(bodyMap)])),
            MapRef(Len(h) + 1) >>

\* maskField on the heap h: <<heap, result>>
maskFieldRef(h, b) ==
    CASE b = Nil -> <<h, Nil>>
      [] Kind(b) = "bytes" ->
            IF Val(b) = ""
            THEN <<h, b>>
            ELSE IF UnmarshalErr(Val(b))
                 THEN <<h, Str(Val(b))>>
                 ELSE LET u == UnmarshalRef(h, Val(b))
                      IN  maskFieldMapRef(u[1], u[2])
      [] IsMapRef(b) -> maskFieldMapRef(h, b)
      [] OTHER -> <<h, b>>

\* toJSON on the heap h: <<heap, result>>
toJSONRef(h, object) ==
    CASE object = Nil -> <<h, Nil>>
      [] Kind(object) = "string" ->
            IF Val(object) = ""
            THEN <<h, object>>
            ELSE IF UnmarshalErr(Val(object))
                 THEN <<h, object>>
                 ELSE UnmarshalRef(h, Val(object))
      [] OTHER -> <<h, object>>

\* Log.TDR on the heap h: <<heap, the record handed to loggerTDR, what the
\* two maskField calls returned>>
TDRRef(h, c, log) ==
    LET req == maskFieldRef(h, log.Request)
        reqJSON == toJSONRef(req[1], req[2])
        resp == maskFieldRef(reqJSON[1], log.Response)
        respJSON == toJSONRef(resp[1], resp[2])
        err == toJSONRef(respJSON[1], log.Error)
        other == toJSONRef(err[1], log.OtherData)
    IN  << other[1],
           Record("info", ":",
                  populateFieldFromContext(c)
                  \o << Field("correlationId", Str(log.CorrelationID)),
                        Field("header", removeAuth(log.Header)),
                        Field("request", reqJSON[2]),
                        Field("statusCode", Str(log.StatusCode)),
                        Field("method", Str(log.Method)),
                        Field("httpStatus", <<"uint64", log.HttpStatus>>),
                        Field("response", respJSON[2]),
                        Field("rt", <<"int64", Milliseconds(log.ResponseTime)>>),
                        Field("error", err[2]),
                        Field("otherData", other[2]) >>),
           <<req[2], resp[2]>> >>

----------------------------------------------------------------------------
(* The callers that keep their payload: they build mappings and sequences, *)
(* hand them to maskField or to TDR, and still hold them afterwards        *)

MaxHeap == 5

HeapKeys == {"password", "name"}
HeapLeaves == {Str("secret"), Num(1)}

\* the cells of h and their members, counted
HeapSize(h) ==
    Len(h) + Cardinality(UNION {{<<a, k>> : k \in DOMAIN Val(h[a])} : a \in 1..Len(h)})

\* the value that refers to the cell at a
RefTo(h, a) == IF Kind(h[a]) = "map" THEN MapRef(a) ELSE SliceRef(a)

\* what the caller can store under the cell at a: a leaf or a cell made later
Storable(h, a) == HeapLeaves \cup {RefTo(h, b) : b \in (a + 1)..Len(h)}

\* what the caller can hand over as a payload
Payloads(h) ==
    {Nil, NilMap, Str(TxtFlat), Bytes(TxtEmpty), Bytes(TxtNested), Bytes(TxtPlain)}
    \cup {RefTo(h, a) : a \in 1..Len(h)}

Responses(h) == {Nil, Bytes(TxtFlat)} \cup {RefTo(h, a) : a \in 1..Len(h)}

HeapInit ==
    /\ phase = "build"
    /\ call = "none"
    /\ MaskIdle
    /\ HdrIdle
    /\ CtxIdle
    /\ LoadIdle
    /\ LogIdle
    /\ PkgIdle
    /\ HeapIdle

\* m := map[string]interface{}{}
MakeMap ==
    /\ maskCalls = 0
    /\ HeapSize(heap) < MaxHeap
    /\ heap' = Append(heap, MakeMapCell)
    /\ UNCHANGED <<payload, maskedRef, maskCalls, notHeap>>

\* s := []interface{}{}
MakeSlice ==
    /\ maskCalls = 0
    /\ HeapSize(heap) < MaxHeap
    /\ heap' = Append(heap, MakeSliceCell(0))
    /\ UNCHANGED <<payload, maskedRef, maskCalls, notHeap>>

\* m[k] = v
PutKey(a, k, v) ==
    /\ maskCalls = 0
    /\ Kind(heap[a]) = "map"
    /\ k \notin DOMAIN Val(heap[a])
    /\ HeapSize(heap) < MaxHeap
    /\ heap' = SetKey(heap, a, k, v)
    /\ UNCHANGED <<payload, maskedRef, maskCalls, notHeap>>

\* s = append(s, v)
AppendTo(a, v) ==
    /\ maskCalls = 0
    /\ Kind(heap[a]) = "slice"
    /\ HeapSize(heap) < MaxHeap
    /\ heap' = [heap EXCEPT ![a] = Slice(Append(Val(@), v))]
    /\ UNCHANGED <<payload, maskedRef, maskCalls, notHeap>>

\* masked := maskField(b)
CallMaskFieldRef(b) ==
    /\ maskCalls = 0
    /\ LET r == maskFieldRef(heap, b) IN
       /\ heap' = r[1]
       /\ maskedRef' = <<r[2]>>
    /\ payload' = <<b>>
    /\ maskCalls' = maskCalls + 1
    /\ UNCHANGED notHeap

\* Log.TDR(ctx, LogModel{Request: req, Response: resp, ...})
CallTDRRef(req, resp) ==
    /\ maskCalls = 0
    /\ LET r == TDRRef(heap, TraceCtx,
                       LogModel("corr-456", Nil, req, "200", "POST", 200,
                                resp, 100000000, Nil, Nil)) IN
       /\ heap' = r[1]
       /\ tdrLog' = Append(tdrLog, r[2])
       /\ maskedRef' = r[3]
    /\ payload' = <<req, resp>>
    /\ maskCalls' = maskCalls + 1
    /\ UNCHANGED <<callVars, body, masked, logModel, hdrVars, ctxVars, loadVars,
                   logVars, pkgVars>>

HeapNext ==
    \/ MakeMap
    \/ MakeSlice
    \/ \E a \in 1..Len(heap) : \E k \in HeapKeys, v \in Storable(heap, a) : PutKey(a, k, v)
    \/ \E a \in 1..Len(heap) : \E v \in Storable(heap, a) : AppendTo(a, v)
    \/ \E b \in Payloads(heap) : CallMaskFieldRef(b)
    \/ \E req \in Payloads(heap), resp \in Responses(heap) : CallTDRRef(req, resp)

SpecHeap == HeapInit /\ [][HeapNext]_vars

----------------------------------------------------------------------------
(* Properties of masking in memory *)

RECURSIVE Reach(_, _)

\* the cells the value v holds: its own and those of its members, at any depth
Reach(h, v) ==
    CASE Kind(v) = "*map" ->
            {Val(v)} \cup UNION {Reach(h, Val(h[Val(v)])[k]) : k \in DOMAIN Val(h[Val(v)])}
      [] Kind(v) = "*slice" ->
            {Val(v)} \cup UNION {Reach(h, Val(h[Val(v)])[i]) : i \in 1..Len(Val(h[Val(v)]))}
      [] OTHER -> {}

RECURSIVE Recursed(_, _)

\* the cells of a masked mapping at the levels masking recurses into: the
\* mapping, the mappings under its keys, the sequences under its keys and
\* the mappings that are elements of those sequences
Recursed(h, v) ==
    IF Kind(v) # "*map"
    THEN {}
    ELSE {Val(v)}
         \cup UNION {LET w == Val(h[Val(v)])[k] IN
                     CASE Kind(w) = "*map" -> Recursed(h, w)
                       [] Kind(w) = "*slice" ->
                            {Val(w)} \cup UNION {Recursed(h, Val(h[Val(w)])[i]) :
                                                   i \in 1..Len(Val(h[Val(w)]))}
                       [] OTHER -> {}
                     : k \in DOMAIN Val(h[Val(v)])}

RECURSIVE Deref(_, _)

\* the value v with every reference replaced by what it refers to
Deref(h, v) ==
    CASE Kind(v) = "*map" ->
            Map([k \in DOMAIN Val(h[Val(v)]) |-> Deref(h, Val(h[Val(v)])[k])])
      [] Kind(v) = "*slice" ->
            Slice([i \in 1..Len(Val(h[Val(v)])) |-> Deref(h, Val(h[Val(v)])[i])])
      [] OTHER -> v

\* masking in memory returns the contents that masking of values returns
HeapAgreesWithValues ==
    \A i \in 1..Len(maskedRef) :
        Deref(heap, maskedRef[i]) = maskField(Deref(heap, payload[i]))

C21_Step ==
    maskCalls' = maskCalls + 1 =>
        /\ \A i \in 1..Len(payload') :
              \A a \in Reach(heap, payload'[i]) : heap'[a] = heap[a]
        /\ \A i \in 1..Len(maskedRef') :
              Recursed(heap', maskedRef'[i]) \cap (1..Len(heap)) = {}

\* C21: a call of maskField, and a call of TDR, leaves every mapping and
\* every sequence of the caller's payload, at any depth, with exactly the
\* keys and values it had before the call, and the mappings and sequences
\* of the masked result, at every level masking recursed into, are cells
\* that did not exist before the call.
C21_MaskingKeepsInput == [][C21_Step]_vars

\* a payload with a sensitive key and a nested mapping or sequence that is
\* not empty was masked: the result has the mask, the payload still has the secret
C21_Witness ==
    /\ maskCalls > 0
    /\ Kind(payload[1]) = "*map"
    /\ Kind(maskedRef[1]) = "*map"
    /\ LET m == Val(heap[Val(payload[1])])
           r == Val(heap[Val(maskedRef[1])]) IN
       /\ DOMAIN m = {"password", "name"}
       /\ m["password"] = Str("secret")
       /\ Kind(m["name"]) \in {"*map", "*slice"}
       /\ DOMAIN Val(heap[Val(m["name"])]) # {}
       /\ r["password"] = Str(MaskText)

====
